---------------------------- MODULE Spec2Model ----------------------------
(***************************************************************************)
(* A model of convert_omnivore_folder_to_pocket_html (src/omni_gui02.py):  *)
(* the loop over the JSON files of a folder, the loop over the elements of *)
(* each file, the two except clauses, and the statistics.                  *)
(*                                                                         *)
(* Python values are tagged records [t |-> <type name>, v |-> <payload>].  *)
(* A str is a sequence of tokens (one character each, except that an ISO   *)
(* date-time is kept as one token), a list is a sequence of values and a   *)
(* dict is a function from its keys to values.                             *)
(***************************************************************************)
EXTENDS Integers, Sequences, FiniteSets, TLC

\* ------------------------------------------------------------- bounds
\* Files in the folder, and array elements summed over all its files.
MaxFiles == 2
MaxRecords == 3
\* The same for the folders converted twice, and the last clock reading.
MaxTwiceFiles == 1
MaxTwiceRecords == 2
MaxClock == 2
\* Records of the single file whose fields range over the special characters.
MaxEscRecords == 1

\* ------------------------------------------------------ Python values
PyStr(s) == [t |-> "str", v |-> s]
PyInt(n) == [t |-> "int", v |-> <<n>>]
PyNone == [t |-> "NoneType", v |-> <<>>]
PyBool(b) == [t |-> "bool", v |-> <<b>>]
PyList(xs) == [t |-> "list", v |-> xs]
PyDict(f) == [t |-> "dict", v |-> f]

\* The result of evaluating an expression: a value, or a raised exception.
Ok(x) == [ok |-> TRUE, val |-> x]
Raise(cls, m) == [ok |-> FALSE, exc |-> cls, msg |-> m]

\* The base class of each exception class the converter can meet.
ExceptionBase ==
    [JSONDecodeError |-> "ValueError", UnicodeDecodeError |-> "UnicodeError",
     UnicodeError |-> "ValueError", ValueError |-> "Exception",
     TypeError |-> "Exception", AttributeError |-> "Exception",
     KeyError |-> "LookupError", LookupError |-> "Exception",
     Exception |-> "BaseException"]

RECURSIVE issubclass(_, _)
issubclass(cls, parent) ==
    IF cls = parent THEN TRUE
    ELSE IF cls \in DOMAIN ExceptionBase THEN issubclass(ExceptionBase[cls], parent)
    ELSE FALSE

\* bool(x)
truthy(x) ==
    CASE x.t = "NoneType" -> FALSE
      [] x.t = "int" -> x.v[1] # 0
      [] x.t \in {"str", "list"} -> Len(x.v) > 0
      [] x.t = "dict" -> DOMAIN x.v # {}

\* s.replace(old, new) for a one-token old and a token sequence new.
RECURSIVE str_replace(_, _, _)
str_replace(s, old, new) ==
    IF s = <<>> THEN <<>>
    ELSE (IF Head(s) = old THEN new ELSE <<Head(s)>>) \o str_replace(Tail(s), old, new)

\* A variant of html.escape that leaves the quotes alone (quote=False).
escape_tokens_unquoted(s) ==
    LET s1 == str_replace(s, "&", <<"&", "a", "m", "p", ";">>)
        s2 == str_replace(s1, "<", <<"&", "l", "t", ";">>)
    IN  str_replace(s2, ">", <<"&", "g", "t", ";">>)

\* html.escape(s, quote=True) on the tokens of a str: & first, then < > " '.
escape_tokens(s) ==
    LET s1 == str_replace(s, "&", <<"&", "a", "m", "p", ";">>)
        s2 == str_replace(s1, "<", <<"&", "l", "t", ";">>)
        s3 == str_replace(s2, ">", <<"&", "g", "t", ";">>)
        s4 == str_replace(s3, "\"", <<"&", "q", "u", "o", "t", ";">>)
    IN  str_replace(s4, "'", <<"&", "#", "x", "2", "7", ";">>)

\* html.escape(x): x.replace is looked up first, so only a str gets through.
html_escape(x) ==
    IF x.t = "str" THEN Ok(escape_tokens(x.v))
    ELSE Raise("AttributeError", "'" \o x.t \o "' object has no attribute 'replace'")

\* sub in s, for token sequences.
is_substring(sub, s) ==
    \E i \in 0..(Len(s) - Len(sub)) :
        \A j \in 1..Len(sub) : s[i + j] = sub[j]

\* 'url' in article
contains_url(article) ==
    CASE article.t = "dict" -> Ok("url" \in DOMAIN article.v)
      [] article.t = "str" -> Ok(is_substring(<<"u", "r", "l">>, article.v))
      [] article.t = "list" ->
            Ok(\E i \in 1..Len(article.v) :
                   article.v[i].t = "str" /\ article.v[i].v = <<"u", "r", "l">>)
      [] OTHER ->
            Raise("TypeError", "argument of type '" \o article.t \o "' is not iterable")

\* article.get(key, default), once article.get itself was found.
dict_get(article, key, default) ==
    IF key \in DOMAIN article.v THEN article.v[key] ELSE default

\* article[key]
dict_item(article, key) ==
    IF key \in DOMAIN article.v THEN Ok(article.v[key])
    ELSE Raise("KeyError", "'" \o key \o "'")

\* ','.join(x)
RECURSIVE join_tokens(_)
join_tokens(xs) ==
    IF xs = <<>> THEN <<>>
    ELSE IF Len(xs) = 1 THEN Head(xs).v
    ELSE Head(xs).v \o <<",">> \o join_tokens(Tail(xs))

comma_join(x) ==
    CASE x.t = "list" ->
            IF \A i \in 1..Len(x.v) : x.v[i].t = "str"
            THEN Ok(join_tokens(x.v))
            ELSE LET i == CHOOSE k \in 1..Len(x.v) :
                              /\ x.v[k].t # "str"
                              /\ \A j \in 1..(k - 1) : x.v[j].t = "str"
                 IN  Raise("TypeError",
                           "sequence item " \o ToString(i - 1)
                             \o ": expected str instance, " \o x.v[i].t \o " found")
      [] x.t = "str" -> Ok(join_tokens([i \in 1..Len(x.v) |-> PyStr(<<x.v[i]>>)]))
      [] OTHER -> Raise("TypeError", "can only join an iterable")

\* -------------------------------------------------------- timestamps
\* The date-time tokens datetime.fromisoformat reads, as (Y, M, D, h, m, s).
IsoDateTime ==
    ("2023-05-01T10:00:00" :> <<2023, 5, 1, 10, 0, 0>>) @@
    ("2024-01-01T00:00:00" :> <<2024, 1, 1, 0, 0, 0>>)

UtcOffsets == {"+00:00", "+02:00"}

\* datetime.fromisoformat(s): a date-time token, then at most one offset.
fromisoformat(s) ==
    IF /\ Len(s) \in {1, 2}
       /\ s[1] \in DOMAIN IsoDateTime
       /\ Len(s) = 2 => s[2] \in UtcOffsets
    THEN Ok([fields |-> IsoDateTime[s[1]],
             tzinfo |-> IF Len(s) = 2 THEN s[2] ELSE "naive"])
    ELSE Raise("ValueError", "Invalid isoformat string")

\* datetime.now() when the wall clock reads c seconds past 2024-01-01.
datetime_now(c) == [fields |-> <<2024, 1, 1, 0, 0, c>>, tzinfo |-> "naive"]

\* dt.strftime('%Y-%m-%d %H:%M:%S'): the six fields, the offset dropped.
strftime(dt) == dt.fields

\* A variant of lines 72-79 that hands savedAt to fromisoformat as it is.
time_added_as_is(article, c) ==
    LET parsed ==
            IF article.v.savedAt.t = "str"
            THEN fromisoformat(article.v.savedAt.v)
            ELSE Raise("TypeError", "fromisoformat: argument must be str")
    IN  IF "savedAt" \in DOMAIN article.v
        THEN IF parsed.ok THEN strftime(parsed.val) ELSE strftime(datetime_now(c))
        ELSE strftime(datetime_now(c))

\* Lines 72-79: the time_added of an article, read at clock value c.
time_added(article, c) ==
    LET parsed ==
            IF article.v.savedAt.t = "str"
            THEN fromisoformat(str_replace(article.v.savedAt.v, "Z", <<"+00:00">>))
            ELSE Raise("AttributeError",
                       "'" \o article.v.savedAt.t \o "' object has no attribute 'replace'")
    IN  IF "savedAt" \in DOMAIN article.v
        THEN IF parsed.ok THEN strftime(parsed.val) ELSE strftime(datetime_now(c))
        ELSE strftime(datetime_now(c))

\* f"{x}" for the description.
format_value(x) ==
    CASE x.t = "str" -> x.v
      [] x.t = "NoneType" -> <<"N", "o", "n", "e">>
      [] x.t = "int" -> <<ToString(x.v[1])>>

\* ------------------------------------------------- one array element
Continue == [kind |-> "continue"]
Raised(r) == [kind |-> "raise", exc |-> r.exc, msg |-> r.msg]
Entry(url, time_str, tags, title, description) ==
    [kind |-> "entry",
     entry |-> [tag |-> "dt_dd", href |-> url, time_added |-> time_str,
                tags |-> tags, text |-> title, dd |-> description]]

\* Lines 66-69: the tags of an article that is a dict.
article_tags(article) ==
    IF "labels" \in DOMAIN article.v /\ truthy(article.v.labels)
    THEN LET joined == comma_join(article.v.labels)
         IN  IF joined.ok THEN html_escape(PyStr(joined.val)) ELSE joined
    ELSE Ok(<<>>)

\* A variant of line 59 that also skips an article whose url is empty.
skip_article_falsy(article) ==
    LET c == contains_url(article)
    IN  c.ok /\ (~c.val \/ (article.t = "dict" /\ ~truthy(article.v.url)))

\* A variant of line 59 that also skips an article without a title.
skip_article_untitled(article) ==
    LET c == contains_url(article)
    IN  c.ok /\ (~c.val \/ (article.t = "dict" /\ "title" \notin DOMAIN article.v))

\* Line 59: the test that skips an element.
skip_article(article) == LET c == contains_url(article) IN c.ok /\ ~c.val

\* Lines 59-86, one pass of the loop body on `article` at clock value c:
\* `continue`, an entry to append, or the exception that leaves the loop.
convert_article(article, c) ==
    LET has == contains_url(article)
        item == dict_item(article, "url")
        title == html_escape(dict_get(article, "title", item.val))
        url == html_escape(item.val)
        tags == article_tags(article)
    IN  IF ~has.ok THEN Raised(has)
        ELSE IF skip_article(article) THEN Continue
        ELSE IF article.t # "dict"
             THEN Raised(Raise("AttributeError",
                               "'" \o article.t \o "' object has no attribute 'get'"))
        ELSE IF ~item.ok THEN Raised(item)
        ELSE IF ~title.ok THEN Raised(title)
        ELSE IF ~url.ok THEN Raised(url)
        ELSE IF ~tags.ok THEN Raised(tags)
        ELSE Entry(url.val, time_added(article, c), tags.val, title.val,
                   format_value(dict_get(article, "description", PyStr(<<>>))))

\* ------------------------------------------------------------- files
\* json_file.name of the i-th file of the folder.
FileName(i) == "f" \o ToString(i) \o ".json"

\* Lines 46-47: open(json_file, encoding='utf-8') and json.load(f).
json_load(file) ==
    CASE file.kind = "undecodable" ->
            Raise("UnicodeDecodeError",
                  "'utf-8' codec can't decode byte 0xff in position 0: invalid start byte")
      [] file.kind = "malformed" ->
            Raise("JSONDecodeError", "Expecting value: line 1 column 1 (char 0)")
      [] file.kind = "json" -> Ok(file.value)

\* A variant of line 50 that lets a JSON object through as well.
is_list_or_dict(x) == x.t \in {"list", "dict"}

\* Line 50: isinstance(omnivore_data, list)
is_list(x) == x.t = "list"

\* A variant of lines 92-95 in which the first clause takes every ValueError.
except_reason_value_error(e) ==
    IF issubclass(e.exc, "ValueError") THEN "Invalid JSON" ELSE e.msg

\* A variant of lines 82-84 that drops an entry the document already holds.
append_entry_once(html, entry) ==
    IF \E k \in DOMAIN html : html[k] = entry THEN html ELSE Append(html, entry)

\* A variant of lines 88-90 that lists a file only when it gave an article.
finish_stats_nonempty(st, name, count) ==
    IF count = 0 THEN st
    ELSE [st EXCEPT !.total_articles = @ + count,
                    !.processed_files =
                        Append(@, <<name, " (", ToString(count), " articles)">>),
                    !.total_files = @ + 1]

\* A variant of lines 92-94 that catches ValueError alone.
is_caught_value_error(e) == issubclass(e.exc, "ValueError")

\* Lines 92, 94: whether one of the two except clauses takes exception e.
is_caught(e) == issubclass(e.exc, "JSONDecodeError") \/ issubclass(e.exc, "Exception")

\* Lines 92-95: the reason the except clauses record for exception e.
except_reason(e) ==
    IF issubclass(e.exc, "JSONDecodeError") THEN "Invalid JSON" ELSE e.msg

\* Lines 51, 93, 95: f"{json_file.name} ({reason})", as its pieces.
failed_entry(name, reason) == <<name, " (", reason, ")">>

\* Line 89: f"{json_file.name} ({file_article_count} articles)", as its pieces.
processed_entry(name, count) == <<name, " (", ToString(count), " articles)">>

\* Lines 82-84: html_content += the entry.
append_entry(html, entry) == Append(html, entry)

\* Lines 88-90: the statistics once the array of file `name` is exhausted.
finish_stats(st, name, count) ==
    [st EXCEPT !.total_articles = @ + count,
               !.processed_files = Append(@, processed_entry(name, count)),
               !.total_files = @ + 1]

Header == [tag |-> "header"]
Footer == [tag |-> "footer"]

\* ------------------------------------------------------------ inputs
\* Files that json.load rejects, and the arrays of at most n elements of E.
Unread == [kind |-> "unread"]
Undecodable == [kind |-> "undecodable"]
Malformed == [kind |-> "malformed"]
JsonFile(x) == [kind |-> "json", value |-> x]
ArrayFiles(E, n) == {JsonFile(PyList(xs)) : xs \in UNION {[1..k -> E] : k \in 0..n}}
IsArrayFile(file) == file.kind = "json" /\ file.value.t = "list"
Elements(file) == IF IsArrayFile(file) THEN file.value.v ELSE <<>>

RECURSIVE ElementCount(_)
ElementCount(files) ==
    IF files = <<>> THEN 0
    ELSE Len(Elements(Head(files))) + ElementCount(Tail(files))

\* Array elements: articles with and without a url, and what is no article.
UrlOnly == PyDict([url |-> PyStr(<<"a">>)])
Full ==
    PyDict([url |-> PyStr(<<"b", "&">>),
            title |-> PyStr(<<"<", "T">>),
            labels |-> PyList(<<PyStr(<<"x">>), PyStr(<<"\"">>)>>),
            savedAt |-> PyStr(<<"2023-05-01T10:00:00", "Z">>),
            description |-> PyStr(<<"<", "d">>)])
NoUrl == PyDict([title |-> PyStr(<<"T">>)])
EmptyUrl == PyDict([url |-> PyStr(<<>>)])
NullTitle == PyDict([url |-> PyStr(<<"a">>), title |-> PyNone])
NotADict == PyInt(5)

FolderElements == {Full, EmptyUrl, NoUrl, NotADict}
NonArrayFiles ==
    {Undecodable, Malformed, JsonFile(PyDict(<<>>)), JsonFile(PyStr(<<"a">>)),
     JsonFile(PyInt(5)), JsonFile(PyBool(TRUE)), JsonFile(PyNone)}

\* Articles that differ in savedAt: none, a UTC designator, an offset,
\* no date-time, no string.
SavedAt(x) == PyDict([url |-> PyStr(<<"a">>), savedAt |-> x])
SavedOffset == SavedAt(PyStr(<<"2023-05-01T10:00:00", "+02:00">>))
SavedJunk == SavedAt(PyStr(<<"j", "u", "n", "k">>))
SavedInt == SavedAt(PyInt(5))
TwiceElements == {UrlOnly, Full, SavedOffset, SavedJunk, SavedInt, NoUrl, NotADict}

\* Articles whose texts hold the characters html.escape replaces.
EscUrls == {<<"a">>, <<"&">>, <<"<", "\"">>, <<">", "'">>}
EscTitles == {<<>>, <<"&", "l", "t", ";">>, <<"<", "b", ">">>, <<"\"">>}
EscLabels ==
    {PyList(<<>>), PyList(<<PyStr(<<"x">>)>>),
     PyList(<<PyStr(<<"&">>), PyStr(<<"<">>)>>),
     PyList(<<PyStr(<<"a", ",", "\"">>), PyStr(<<">">>)>>)}
EscDescriptions == {<<"<", "&", "\"", ">">>}
Optional(key, values) == {<<>>} \cup {key :> x : x \in values}
EscRecords ==
    {PyDict(("url" :> PyStr(u)) @@ t @@ l @@ d) :
        u \in EscUrls,
        t \in Optional("title", {PyStr(x) : x \in EscTitles}),
        l \in Optional("labels", EscLabels),
        d \in Optional("description", {PyStr(x) : x \in EscDescriptions})}
BadLabel == PyDict([url |-> PyStr(<<"a">>), labels |-> PyList(<<PyInt(5)>>)])
EscElements == EscRecords \cup {NoUrl, NullTitle, BadLabel}

\* What the files of a folder can hold, by name.
Universe(name) ==
    CASE name = "folder" ->
            [elements |-> FolderElements, others |-> NonArrayFiles,
             records |-> MaxRecords]
      [] name = "twice" ->
            [elements |-> TwiceElements, others |-> {Malformed, JsonFile(PyNone)},
             records |-> MaxTwiceRecords]
      [] name = "escape" ->
            [elements |-> EscElements, others |-> {Malformed, JsonFile(PyNone)},
             records |-> MaxEscRecords]

\* ------------------------------------------------------------- state
VARIABLES
    universe,            \* the name of what the files of the folder can hold
    json_files,          \* line 40: the files of the folder, in glob order,
                         \* each with the content its first read finds
    pc,                  \* "for_file" (line 43), "for_article" (line 57),
                         \* "returned" (line 103) or "raised"
    fi,                  \* the position of the file loop in json_files
    omnivore_data,       \* line 47: the parsed content of the current file
    ri,                  \* the position of the article loop in omnivore_data
    file_article_count,  \* line 54
    html_content,        \* lines 21, 82, 98: the header, the entries, the footer
    stats,               \* lines 32-37
    clock,               \* the wall clock datetime.now() reads
    previous             \* what the call before this one returned, if any

vars == <<universe, json_files, pc, fi, omnivore_data, ri, file_article_count,
          html_content, stats, clock, previous>>

\* Lines 21-37: the locals of a call that is about to enter the file loop.
Entered ==
    /\ pc = "for_file"
    /\ fi = 1
    /\ omnivore_data = PyNone
    /\ ri = 1
    /\ file_article_count = 0
    /\ html_content = <<Header>>
    /\ stats = [total_files |-> 0, total_articles |-> 0,
                processed_files |-> <<>>, failed_files |-> <<>>]

\* Lines 51-52: the file is recorded as failed, then the next file.
FailFile(reason) ==
    /\ stats' = [stats EXCEPT
                   !.failed_files = Append(@, failed_entry(FileName(fi), reason))]
    /\ fi' = fi + 1
    /\ pc' = "for_file"

\* Lines 92-95: exception e leaves the try block: a clause records the file
\* as failed, or e leaves the function.
Except(e) ==
    IF is_caught(e)
    THEN FailFile(except_reason(e))
    ELSE /\ pc' = "raised"
         /\ UNCHANGED <<fi, stats>>

\* What a file not read before can turn out to hold.
Contents ==
    Universe(universe).others \cup
    ArrayFiles(Universe(universe).elements,
               Universe(universe).records - ElementCount(json_files))

\* Lines 43-54: the next file is opened and parsed.
OpenFile ==
    /\ pc = "for_file"
    /\ fi <= Len(json_files)
    /\ \E file \in (IF json_files[fi] = Unread THEN Contents ELSE {json_files[fi]}) :
       LET loaded == json_load(file)
       IN
        /\ json_files' = [json_files EXCEPT ![fi] = file]
        /\ \/ /\ ~loaded.ok
                 /\ Except(loaded)
                 /\ UNCHANGED <<omnivore_data, ri, file_article_count>>
              \/ /\ loaded.ok
                 /\ ~is_list(loaded.val)
                 /\ FailFile("Invalid format")
                 /\ omnivore_data' = loaded.val
                 /\ UNCHANGED <<ri, file_article_count>>
              \/ /\ loaded.ok
                 /\ is_list(loaded.val)
                 /\ omnivore_data' = loaded.val
                 /\ file_article_count' = 0
                 /\ ri' = 1
                 /\ pc' = "for_article"
                 /\ UNCHANGED <<fi, stats>>
    /\ UNCHANGED <<universe, html_content, clock, previous>>

\* Lines 57-86: one element of the array.
ConvertArticle ==
    /\ pc = "for_article"
    /\ ri <= Len(omnivore_data.v)
    /\ LET done == convert_article(omnivore_data.v[ri], clock)
       IN  \/ /\ done.kind = "continue"
              /\ ri' = ri + 1
              /\ UNCHANGED <<pc, fi, file_article_count, html_content, stats>>
           \/ /\ done.kind = "entry"
              /\ html_content' = append_entry(html_content, done.entry)
              /\ file_article_count' = file_article_count + 1
              /\ ri' = ri + 1
              /\ UNCHANGED <<pc, fi, stats>>
           \/ /\ done.kind = "raise"
              /\ Except(done)
              /\ UNCHANGED <<ri, file_article_count, html_content>>
    /\ UNCHANGED <<universe, json_files, omnivore_data, clock, previous>>

\* Lines 88-90: the array is exhausted.
FinishFile ==
    /\ pc = "for_article"
    /\ ri > Len(omnivore_data.v)
    /\ stats' = finish_stats(stats, FileName(fi), file_article_count)
    /\ fi' = fi + 1
    /\ pc' = "for_file"
    /\ UNCHANGED <<universe, json_files, omnivore_data, ri, file_article_count,
                   html_content, clock, previous>>

\* Lines 97-103: the file loop is over.
Return ==
    /\ pc = "for_file"
    /\ fi > Len(json_files)
    /\ html_content' = Append(html_content, Footer)
    /\ pc' = "returned"
    /\ UNCHANGED <<universe, json_files, fi, omnivore_data, ri, file_article_count,
                   stats, clock, previous>>

\* Time passes.
Tick ==
    /\ clock < MaxClock
    /\ clock' = clock + 1
    /\ UNCHANGED <<universe, json_files, pc, fi, omnivore_data, ri, file_article_count,
                   html_content, stats, previous>>

\* Line 148: the button is pressed again and the same folder converted anew.
ConvertAgain ==
    /\ pc = "returned"
    /\ previous = <<>>
    /\ previous' = <<[html_content |-> html_content, stats |-> stats]>>
    /\ pc' = "for_file"
    /\ fi' = 1
    /\ omnivore_data' = PyNone
    /\ ri' = 1
    /\ file_article_count' = 0
    /\ html_content' = <<Header>>
    /\ stats' = [total_files |-> 0, total_articles |-> 0,
                 processed_files |-> <<>>, failed_files |-> <<>>]
    /\ UNCHANGED <<universe, json_files, clock>>

Next == OpenFile \/ ConvertArticle \/ FinishFile \/ Return

NextTwice == Next \/ Tick \/ ConvertAgain

\* ---------------------------------------------------- specifications
\* A folder of n files, none read yet.
Folder(n) == [i \in 1..n |-> Unread]

Init ==
    /\ universe = "folder"
    /\ json_files \in {Folder(n) : n \in 0..MaxFiles}
    /\ Entered
    /\ clock = 0
    /\ previous = <<>>

\* One call of the converter on a folder.
Spec == Init /\ [][Next]_vars

InitTwice ==
    /\ universe = "twice"
    /\ json_files \in {Folder(n) : n \in 0..MaxTwiceFiles}
    /\ Entered
    /\ clock = 0
    /\ previous = <<>>

\* Two calls of the converter on one folder, while time passes.
SpecTwice == InitTwice /\ [][NextTwice]_vars

InitEsc ==
    /\ universe = "escape"
    /\ json_files = Folder(1)
    /\ Entered
    /\ clock = 0
    /\ previous = <<>>

\* One call of the converter on one file of articles with special characters.
SpecEsc == InitEsc /\ [][Next]_vars

\* ------------------------------------------------- what the claims read
Files == 1..Len(json_files)
Returned == pc = "returned"
Range(seq) == {seq[k] : k \in DOMAIN seq}
IsEntry(fragment) == fragment.tag = "dt_dd"
DocEntries == SelectSeq(html_content, IsEntry)

\* An article record as the export writes it: an object whose attributes,
\* where present, are strings, and whose labels are a sequence of strings.
ValidRecord(r) ==
    /\ r.t = "dict"
    /\ \A k \in DOMAIN r.v \cap {"url", "title", "savedAt", "description"} :
          r.v[k].t = "str"
    /\ "labels" \in DOMAIN r.v =>
          /\ r.v.labels.t = "list"
          /\ \A j \in DOMAIN r.v.labels.v : r.v.labels.v[j].t = "str"
ValidArray(file) ==
    IsArrayFile(file) /\ \A j \in DOMAIN Elements(file) : ValidRecord(Elements(file)[j])
ValidFolder == \A i \in Files : ValidArray(json_files[i])

HasUrl(r) == r.t = "dict" /\ "url" \in DOMAIN r.v
UrlCount(file) ==
    Cardinality({j \in DOMAIN Elements(file) : HasUrl(Elements(file)[j])})
RECURSIVE UrlTotal(_)
UrlTotal(files) ==
    IF files = <<>> THEN 0 ELSE UrlCount(Head(files)) + UrlTotal(Tail(files))

\* What the loop body does with each element, read off the elements alone:
\* the entries of the elements before the first one that raises.
RECURSIVE EntriesBeforeRaise(_, _)
EntriesBeforeRaise(elements, c) ==
    IF elements = <<>> THEN <<>>
    ELSE LET done == convert_article(Head(elements), c)
         IN  CASE done.kind = "raise" -> <<>>
               [] done.kind = "continue" -> EntriesBeforeRaise(Tail(elements), c)
               [] done.kind = "entry" ->
                     <<done.entry>> \o EntriesBeforeRaise(Tail(elements), c)
ElementRaises(file) ==
    \E j \in DOMAIN Elements(file) : convert_article(Elements(file)[j], 0).kind = "raise"
FileFails(file) == ~IsArrayFile(file) \/ ElementRaises(file)

RECURSIVE AllEntries(_, _)
AllEntries(files, c) ==
    IF files = <<>> THEN <<>>
    ELSE EntriesBeforeRaise(Elements(Head(files)), c) \o AllEntries(Tail(files), c)
RECURSIVE ProcessedEntries(_, _)
ProcessedEntries(files, c) ==
    IF files = <<>> THEN <<>>
    ELSE (IF FileFails(Head(files)) THEN <<>>
          ELSE EntriesBeforeRaise(Elements(Head(files)), c))
         \o ProcessedEntries(Tail(files), c)

\* The pieces of a statistics entry.
EntryName(e) == e[1]
ProcessedOf(i) == {k \in DOMAIN stats.processed_files :
                      EntryName(stats.processed_files[k]) = FileName(i)}
FailedOf(i) == {k \in DOMAIN stats.failed_files :
                   EntryName(stats.failed_files[k]) = FileName(i)}
FileOfName(name) == CHOOSE i \in Files : FileName(i) = name
ArticlesIn(e) == CHOOSE n \in 0..Len(html_content) : ToString(n) = e[3]
RECURSIVE ArticlesTotal(_)
ArticlesTotal(entries) ==
    IF entries = <<>> THEN 0 ELSE ArticlesIn(Head(entries)) + ArticlesTotal(Tail(entries))
InFileOrder(entries) ==
    \A k1, k2 \in DOMAIN entries :
        k1 < k2 => FileOfName(EntryName(entries[k1])) < FileOfName(EntryName(entries[k2]))

\* ------------------------------------------------------------- claims

\* C1: on a folder whose files are all valid arrays of article records, the
\* document holds as many entries as there are records with a url attribute,
\* total_articles is that number, each file is listed as processed with the
\* number of its records that have a url, and no file fails.
C1_EntriesAreUrlRecords ==
    (Returned /\ ValidFolder) =>
        /\ Len(DocEntries) = UrlTotal(json_files)
        /\ stats.total_articles = UrlTotal(json_files)
        /\ stats.failed_files = <<>>
        /\ stats.processed_files =
              [i \in Files |-> <<FileName(i), " (", ToString(UrlCount(json_files[i])),
                                 " articles)">>]

C1_Witness ==
    /\ Returned /\ ValidFolder
    /\ Len(json_files) = 2
    /\ \E i \in Files : \E j1, j2 \in DOMAIN Elements(json_files[i]) :
          HasUrl(Elements(json_files[i])[j1]) /\ ~HasUrl(Elements(json_files[i])[j2])
    /\ \A i \in Files : UrlCount(json_files[i]) > 0

\* C2: no failure of a file ends the run: the call never raises, and when it
\* returns every failing file has its failure entry, every other file is
\* listed as processed with the entries its elements give, and the document
\* holds what each file's elements give, whatever failed before them.
C2_FailureIsLocal ==
    /\ pc # "raised"
    /\ Returned =>
          /\ \A i \in Files :
                IF FileFails(json_files[i])
                THEN \E k \in FailedOf(i) :
                        /\ Len(stats.failed_files[k]) = 4
                        /\ stats.failed_files[k][2] = " ("
                        /\ stats.failed_files[k][4] = ")"
                ELSE <<FileName(i), " (",
                       ToString(Len(EntriesBeforeRaise(Elements(json_files[i]), clock))),
                       " articles)">> \in Range(stats.processed_files)
          /\ DocEntries = AllEntries(json_files, clock)
          /\ Len(stats.processed_files) + Len(stats.failed_files) = Len(json_files)

C2_Witness ==
    /\ Returned
    /\ Len(json_files) = 2
    /\ ElementRaises(json_files[1])
    /\ ~FileFails(json_files[2])
    /\ UrlCount(json_files[2]) > 0
    /\ Len(stats.failed_files) = 1 /\ Len(stats.processed_files) = 1

\* C3 as stated: a file that fails to decode or to parse is recorded as
\* "<name> (Invalid JSON)".
C3_DecodeOrParseIsInvalidJson ==
    \A i \in Files :
        (i < fi /\ json_files[i].kind \in {"undecodable", "malformed"}) =>
            <<FileName(i), " (", "Invalid JSON", ")">> \in Range(stats.failed_files)

\* The step that opens file fi and finds `file` there.
Opens(file) ==
    /\ pc = "for_file"
    /\ fi <= Len(json_files)
    /\ json_files'[fi] = file
LeavesFileOut(reason) ==
    /\ stats'.failed_files =
          Append(stats.failed_files, <<FileName(fi), " (", reason, ")">>)
    /\ stats'.processed_files = stats.processed_files
    /\ stats'.total_files = stats.total_files
    /\ stats'.total_articles = stats.total_articles
    /\ html_content' = html_content
    /\ fi' = fi + 1
    /\ pc' = "for_file"

\* C3, amended: a file whose text fails to parse is recorded as
\* "<name> (Invalid JSON)", a file whose bytes fail to decode as
\* "<name> (<the decoder's message>)"; either way the step adds no entry,
\* leaves processed_files and both totals alone and moves to the next file.
C3_ParseIsInvalidJsonDecodeIsMessage ==
    [][/\ Opens(Malformed) => LeavesFileOut("Invalid JSON")
       /\ Opens(Undecodable) =>
             LeavesFileOut("'utf-8' codec can't decode byte 0xff in position 0: invalid start byte")
      ]_vars

C3_Witness ==
    /\ Returned
    /\ json_files = <<Undecodable, Malformed>>
    /\ Len(stats.failed_files) = 2
    /\ stats.failed_files[1][3] # "Invalid JSON"
    /\ stats.failed_files[2][3] = "Invalid JSON"
    /\ DocEntries = <<>>

\* C4: a file that is valid JSON but no array is recorded as
\* "<name> (Invalid format)"; the step adds no entry, leaves processed_files
\* and both totals alone, and the file is never listed as processed.
C4_NonArrayIsInvalidFormat ==
    /\ [][\A file \in NonArrayFiles :
            (file.kind = "json" /\ Opens(file)) => LeavesFileOut("Invalid format")]_vars
    /\ [](\A i \in Files :
            (json_files[i].kind = "json" /\ json_files[i].value.t # "list") =>
                ProcessedOf(i) = {})

C4_Witness ==
    /\ Returned
    /\ Len(json_files) = 2
    /\ json_files[1] = JsonFile(PyDict(<<>>))
    /\ IsArrayFile(json_files[2])
    /\ stats.failed_files = <<<<FileName(1), " (", "Invalid format", ")">>>>
    /\ stats.total_files = 1
    /\ stats.total_articles = 2

\* C5: when the call returns every file has exactly one outcome entry, in
\* processed_files as "<name> (<count> articles)" or in failed_files; both
\* lists are in file order; total_files is the length of processed_files and
\* total_articles the sum of its counts; an array that gives no article is
\* listed with 0 articles.
C5_OneOutcomePerFile ==
    Returned =>
        /\ \A i \in Files : Cardinality(ProcessedOf(i)) + Cardinality(FailedOf(i)) = 1
        /\ \A k \in DOMAIN stats.processed_files :
              \E i \in Files, n \in 0..Len(html_content) :
                  stats.processed_files[k] = <<FileName(i), " (", ToString(n), " articles)">>
        /\ \A k \in DOMAIN stats.failed_files :
              \E i \in Files : EntryName(stats.failed_files[k]) = FileName(i)
        /\ InFileOrder(stats.processed_files)
        /\ InFileOrder(stats.failed_files)
        /\ stats.total_files = Len(stats.processed_files)
        /\ stats.total_articles = ArticlesTotal(stats.processed_files)
        /\ \A i \in Files :
              (IsArrayFile(json_files[i]) /\ ~ElementRaises(json_files[i])
                 /\ UrlCount(json_files[i]) = 0) =>
                  <<FileName(i), " (", "0", " articles)">> \in Range(stats.processed_files)

C5_Witness ==
    /\ Returned
    /\ Len(json_files) = 2
    /\ json_files[1] = JsonFile(PyList(<<NoUrl>>))
    /\ FileFails(json_files[2])
    /\ stats.processed_files = <<<<FileName(1), " (", "0", " articles)">>>>
    /\ Len(stats.failed_files) = 1

\* C6: the entries of the document are those of the files in file order, and
\* within a file those of its elements in array order; none is moved or
\* dropped, so equal records give equal entries, one each.
C6_FileThenRecordOrder ==
    Returned => DocEntries = AllEntries(json_files, clock)

C6_Witness ==
    /\ Returned
    /\ json_files = <<JsonFile(PyList(<<EmptyUrl, Full>>)), JsonFile(PyList(<<Full>>))>>
    /\ Len(DocEntries) = 3
    /\ DocEntries[1].href = <<>>
    /\ DocEntries[2].href = <<"b", "&", "a", "m", "p", ";">>
    /\ DocEntries[3] = DocEntries[2]

\* The step of the loop body on the element at ri.
AtElement == pc = "for_article" /\ ri <= Len(omnivore_data.v)
AddsOneEntry ==
    /\ Len(html_content') = Len(html_content) + 1
    /\ SubSeq(html_content', 1, Len(html_content)) = html_content
    /\ IsEntry(html_content'[Len(html_content')])
    /\ file_article_count' = file_article_count + 1
    /\ ri' = ri + 1

\* C9 as stated: an entry is only ever added for a record whose url is
\* present and not the empty string, and one entry at most.
C9_EntryOnlyForNonEmptyUrl ==
    [][(AtElement /\ html_content' # html_content) =>
          /\ HasUrl(omnivore_data.v[ri])
          /\ omnivore_data.v[ri].v.url.t = "str"
          /\ omnivore_data.v[ri].v.url.v # <<>>
          /\ AddsOneEntry]_vars

\* C9, amended: an entry is only ever added for a record that has a url
\* attribute, the empty string included, and one entry at most; a valid
\* record with a url attribute gets its entry, a record without gets none.
C9_EntryOnlyForUrlAttribute ==
    [][AtElement =>
          /\ html_content' # html_content =>
                HasUrl(omnivore_data.v[ri]) /\ AddsOneEntry
          /\ (ValidRecord(omnivore_data.v[ri]) /\ HasUrl(omnivore_data.v[ri])) =>
                AddsOneEntry
          /\ (ValidRecord(omnivore_data.v[ri]) /\ ~HasUrl(omnivore_data.v[ri])) =>
                /\ html_content' = html_content
                /\ file_article_count' = file_article_count]_vars

C9_Witness ==
    /\ Returned
    /\ json_files = <<JsonFile(PyList(<<EmptyUrl, NoUrl, Full>>))>>
    /\ Len(DocEntries) = 2
    /\ DocEntries[1].href = <<>>

\* C10 as stated: when the call returns the document holds total_articles
\* entries, all of them from files listed as processed.
C10_EntriesAreTheCountedArticles ==
    Returned =>
        /\ Len(DocEntries) = stats.total_articles
        /\ DocEntries = ProcessedEntries(json_files, clock)

\* The records that give the entries of the document, in its order: in each
\* array the elements with a url before the first element that raises.
RECURSIVE SourcesBeforeRaise(_)
SourcesBeforeRaise(elements) ==
    IF elements = <<>> THEN <<>>
    ELSE LET done == convert_article(Head(elements), 0)
         IN  CASE done.kind = "raise" -> <<>>
               [] done.kind = "continue" -> SourcesBeforeRaise(Tail(elements))
               [] done.kind = "entry" ->
                     <<Head(elements)>> \o SourcesBeforeRaise(Tail(elements))
RECURSIVE Sources(_)
Sources(files) ==
    IF files = <<>> THEN <<>>
    ELSE SourcesBeforeRaise(Elements(Head(files))) \o Sources(Tail(files))

\* All array elements of the folder that are objects.
Records ==
    {r \in UNION {Range(Elements(json_files[i])) : i \in Files} : r.t = "dict"}

\* savedAt is an ISO date-time, alone or before "Z" or a UTC offset.
HasIsoSavedAt(r) ==
    /\ "savedAt" \in DOMAIN r.v
    /\ r.v.savedAt.t = "str"
    /\ Len(r.v.savedAt.v) \in {1, 2}
    /\ r.v.savedAt.v[1] \in DOMAIN IsoDateTime
    /\ Len(r.v.savedAt.v) = 2 => r.v.savedAt.v[2] \in UtcOffsets \cup {"Z"}

Before == previous[1]
ReturnedAgain == Returned /\ previous # <<>>
BeforeEntries == SelectSeq(Before.html_content, IsEntry)
SameButTime(e1, e2) ==
    /\ e1.href = e2.href
    /\ e1.tags = e2.tags
    /\ e1.text = e2.text
    /\ e1.dd = e2.dd

\* C7 as stated, on folders of valid arrays: a second call on the same
\* folder returns the same document and statistics whenever every record has
\* a savedAt attribute, and an entry whose time_added differs comes from a
\* record without savedAt.
C7_SameWhenSavedAtPresent ==
    (ReturnedAgain /\ ValidFolder) =>
        /\ (\A r \in Records : "savedAt" \in DOMAIN r.v) =>
              /\ html_content = Before.html_content
              /\ stats = Before.stats
        /\ \A k \in DOMAIN DocEntries :
              (k \in DOMAIN BeforeEntries /\ DocEntries[k] # BeforeEntries[k]) =>
                  "savedAt" \notin DOMAIN Sources(json_files)[k].v

\* C7, amended: a second call on the same folder returns the same statistics
\* and the same entries up to time_added; an entry whose time_added differs
\* comes from a record whose savedAt is absent or does not parse as an ISO
\* date-time; so the documents are identical whenever every record has a
\* savedAt that parses.
C7_SameWhenSavedAtParses ==
    ReturnedAgain =>
        /\ stats = Before.stats
        /\ Len(html_content) = Len(Before.html_content)
        /\ Len(DocEntries) = Len(Sources(json_files))
        /\ \A k \in DOMAIN DocEntries :
              /\ SameButTime(DocEntries[k], BeforeEntries[k])
              /\ DocEntries[k].time_added # BeforeEntries[k].time_added =>
                    ~HasIsoSavedAt(Sources(json_files)[k])
        /\ (\A r \in Records : HasIsoSavedAt(r)) => html_content = Before.html_content

C7_Witness ==
    /\ ReturnedAgain
    /\ json_files = <<JsonFile(PyList(<<Full, SavedJunk>>))>>
    /\ DocEntries[1] = BeforeEntries[1]
    /\ DocEntries[2].time_added # BeforeEntries[2].time_added

\* ----------------------------------------------------------- escaping
\* The replacement html.escape makes for one character.
EntityOf(c) ==
    CASE c = "&" -> <<"&", "a", "m", "p", ";">>
      [] c = "<" -> <<"&", "l", "t", ";">>
      [] c = ">" -> <<"&", "g", "t", ";">>
      [] c = "\"" -> <<"&", "q", "u", "o", "t", ";">>
      [] c = "'" -> <<"&", "#", "x", "2", "7", ";">>
      [] OTHER -> <<c>>
Entities == {EntityOf(c) : c \in {"&", "<", ">", "\"", "'"}}
RECURSIVE Escaped(_)
Escaped(s) == IF s = <<>> THEN <<>> ELSE EntityOf(Head(s)) \o Escaped(Tail(s))

\* The texts of the labels, a comma between each two.
RECURSIVE CommaJoined(_)
CommaJoined(labels) ==
    IF labels = <<>> THEN <<>>
    ELSE IF Len(labels) = 1 THEN labels[1].v
    ELSE CommaJoined(SubSeq(labels, 1, Len(labels) - 1)) \o <<",">> \o labels[Len(labels)].v

\* No < > " in s, and every & of s starts one of the five entities.
NothingUnescaped(s) ==
    \A k \in DOMAIN s :
        /\ s[k] \notin {"<", ">", "\""}
        /\ s[k] = "&" =>
              \E e \in Entities : k + Len(e) - 1 <= Len(s) /\ SubSeq(s, k, k + Len(e) - 1) = e

\* C8: the entry of a record with a url has the escaped url as href, the
\* escaped title (the escaped url when there is no title) as link text, the
\* escaped comma-joined labels (nothing when labels is absent or empty) as
\* tags, and the description as it is (nothing when absent); so href, tags
\* and link text hold no unescaped & < > ", and the description may.
C8_EscapedFieldsRawDescription ==
    Returned =>
        /\ Len(DocEntries) = Len(Sources(json_files))
        /\ \A k \in DOMAIN DocEntries :
              LET r == Sources(json_files)[k].v
                  e == DocEntries[k]
              IN  ValidRecord(Sources(json_files)[k]) =>
                    /\ e.href = Escaped(r.url.v)
                    /\ e.text = Escaped(IF "title" \in DOMAIN r THEN r.title.v ELSE r.url.v)
                    /\ e.tags = IF "labels" \in DOMAIN r /\ r.labels.v # <<>>
                                THEN Escaped(CommaJoined(r.labels.v)) ELSE <<>>
                    /\ e.dd = IF "description" \in DOMAIN r THEN r.description.v ELSE <<>>
                    /\ NothingUnescaped(e.href)
                    /\ NothingUnescaped(e.tags)
                    /\ NothingUnescaped(e.text)

C8_Witness ==
    /\ Returned
    /\ Len(DocEntries) = 1
    /\ DocEntries[1].href = <<"&", "l", "t", ";", "&", "q", "u", "o", "t", ";">>
    /\ DocEntries[1].text = <<"&", "a", "m", "p", ";", "l", "t", ";">>
    /\ DocEntries[1].tags =
          <<"a", ",", "&", "q", "u", "o", "t", ";", ",", "&", "g", "t", ";">>
    /\ DocEntries[1].dd = <<"<", "&", "\"", ">">>

=============================================================================
